---- MODULE Spec2Model ----
(***************************************************************************)
(* Model of the Big Brother watch list (bot/cogs/watchchannels/            *)
(* bigbrother.py): apply_watch and apply_unwatch as coroutines that are    *)
(* suspended at every awaited backend call, the backend infraction log,    *)
(* and the watched_users cache.                                            *)
(*                                                                         *)
(* Every awaited backend call is split in two: the step in which the       *)
(* backend serves the request (its effect on the log and the response),    *)
(* and the step in which the coroutine is resumed and runs its synchronous *)
(* code up to the next await.  A resumption that touches nothing but the   *)
(* coroutine's own locals is folded into the serving step.  ctx.send is    *)
(* taken to deliver; a send that is the last statement of a branch is      *)
(* folded into the step before it.                                         *)
(***************************************************************************)
EXTENDS Naturals, Sequences, FiniteSets, TLC

\* ---------------------------------------------------------------- bounds
MaxCalls == 3
MaxSeqCalls == 5
MaxOneCalls == 4
MaxHist == 4

\* the slots of the command invocations: two can be in flight at a time
Procs == {1, 2}
Users == {1, 2, 3}
Reasons == {"spam", "test watch"}

\* user.bot
IsBot(user) == user = 3

VARIABLES
    backend,        \* the infraction log of the API, oldest first; id = position
    watched_users,  \* the cache: user id -> infraction
    pc,             \* where each invocation is suspended
    call,           \* the arguments of each invocation
    resp,           \* the response the invocation is about to be resumed with
    out,            \* the messages the invocation sent with ctx.send
    result,         \* the branch on which the invocation ended
    eff,            \* what the invocation's own steps did (log and differences)
    ncalls,         \* invocations started so far
    past            \* what has happened so far, over all invocations

vars == <<backend, watched_users, pc, call, resp, out, result, eff, ncalls, past>>

\* ------------------------------------------------------------ the backend
Infraction(id, user, type, reason, active) ==
    [id |-> id, user |-> user, type |-> type, reason |-> reason, active |-> active]

Reverse(s) == [i \in 1..Len(s) |-> s[Len(s) + 1 - i]]

Range(s) == {s[i] : i \in 1..Len(s)}

\* api_client.get(api_endpoint, params): the watch infractions of the given
\* users with the given active flag, ordering -inserted_at (newest first)
ApiGet(b, users, active) ==
    LET Match(r) == r.user \in users /\ r.active = active /\ r.type = "watch"
    IN  Reverse(SelectSeq(b, Match))

\* api_client.patch(f"{api_endpoint}/{id}", json={'active': False})
ApiPatchInactive(b, id) == [b EXCEPT ![id].active = FALSE]

\* post_infraction(ctx, user, type, reason, hidden=True, active=...): the log
\* with the new infraction appended; the infraction is the response
PostInfraction(b, user, type, reason, active) ==
    Append(b, Infraction(Len(b) + 1, user, type, reason, active))

\* ------------------------------------------------------------- the cache
EmptyCache == [u \in {} |-> Infraction(0, 0, "", "", FALSE)]

\* fetch_user_cache: the maps that can replace the cache given the fetched
\* active infractions (one entry per user; which of several is not fixed)
FetchedCaches(data) ==
    {f \in [{r.user : r \in Range(data)} -> Range(data)] :
        \A u \in DOMAIN f : f[u].user = u}

\* _remove_user(user_id)
RemoveUser(watched, user) == [u \in (DOMAIN watched) \ {user} |-> watched[u]]

\* the membership guard never rejecting
IsAlreadyWatchedNever(watched, user) == FALSE

\* line 73: user.id in self.watched_users
IsAlreadyWatched(watched, user) == user \in DOMAIN watched

\* the cache entry is not written
CachePutSkipped(watched, user, response) == watched

\* a put that keeps no entry but the one it writes
CachePutAlone(watched, user, response) == [u \in {user} |-> response]

\* line 80: self.watched_users[user.id] = response
CachePut(watched, user, response) ==
    [u \in (DOMAIN watched) \cup {user} |-> IF u = user THEN response ELSE watched[u]]

\* ------------------------------------------------------------- messages
Msg(kind) == [kind |-> kind, digest |-> <<>>]

\* the two reasons of the digest taken from the wrong entries
HistoryDigestSwapped(history) ==
    IF Len(history) > 1
    THEN <<[total |-> Len(history) \div 2,
            end_reason |-> history[2].reason,
            start_reason |-> "Watched: " \o history[1].reason]>>
    ELSE <<>>

\* lines 93-97: the previous watch reasons appended to the confirmation
HistoryDigest(history) ==
    IF Len(history) > 1
    THEN <<[total |-> Len(history) \div 2,
            end_reason |-> history[1].reason,
            start_reason |-> "Watched: " \o history[2].reason]>>
    ELSE <<>>

\* the closing infraction without its prefix
UnwatchReasonBare(reason) == reason

\* line 121: the reason of the closing infraction
UnwatchReason(reason) == "Unwatched: " \o reason

\* the ban flag not looked at
SendsMessageAlways(banned) == TRUE

\* lines 123 and 130: if not banned
SendsMessage(banned) == ~banned

\* the number of active watches of the user in the log b
ActiveCount(b, u) ==
    Cardinality({i \in 1..Len(b) :
                    b[i].user = u /\ b[i].type = "watch" /\ b[i].active})

\* ------------------------------------------------------------ invocations
NoCall == [op |-> "none", user |-> 0, reason |-> "", banned |-> FALSE]
NoEff == [log |-> <<>>, cache_by |-> {}, member |-> {}, others |-> {},
          patched |-> {}, added |-> {}, seen |-> 0, cached |-> FALSE,
          late |-> FALSE]

\* nothing has happened: no backend call has failed, no invocation has
\* overlapped a watch, no unwatch has completed, the log has held two active
\* watches of no user, and no invocation has started with nothing in flight
\* and two active watches of one user in the log
NoPast == [failed |-> FALSE, raced |-> FALSE, closed |-> [u \in Users |-> 0],
           doubled |-> {}, stuck |-> {}]

\* the events in which a backend call failed or returned nothing
Failures == {"fetch_failed", "create_empty", "history_failed", "query_failed",
             "patch_failed"}

Init ==
    /\ backend = <<>>
    /\ watched_users = EmptyCache
    /\ pc = [p \in Procs |-> "idle"]
    /\ call = [p \in Procs |-> NoCall]
    /\ resp = [p \in Procs |-> <<>>]
    /\ out = [p \in Procs |-> <<>>]
    /\ result = [p \in Procs |-> ""]
    /\ eff = [p \in Procs |-> NoEff]
    /\ ncalls = 0
    /\ past = NoPast

\* The record of what this step of p did: the event; if the step changed the
\* cache map, the event in cache_by; if it changed whether the cache contains
\* the user of the invocation, the direction in member; the ids of the
\* infractions the step changed (patched) and appended (added); the length of
\* the log when the fetch of the refresh was served (seen); whether the cache
\* contained the user when the query of the unwatch was served (cached); if
\* the step changed the cache entry of another user, the event in others.
\* Over all invocations: whether a backend call has failed, how many
\* unwatches of each user have completed on the success branch, and of which
\* users the log has held two active watches at once.
Did(p, event) ==
    LET user == call[p].user
        was == user \in DOMAIN watched_users
        is == user \in DOMAIN watched_users'
        Entry(w, u) == IF u \in DOMAIN w THEN <<w[u]>> ELSE <<>>
    IN  /\ past' = [past EXCEPT
               !.failed = @ \/ event \in Failures,
               !.closed[user] = IF event = "remove" THEN @ + 1 ELSE @,
               !.doubled = @ \cup {u \in Users : ActiveCount(backend', u) >= 2}]
        /\ eff' = [eff EXCEPT ![p] =
            [log |-> Append(@.log, event),
             others |-> @.others \cup
                 (IF \E u \in Users \ {user} :
                         Entry(watched_users', u) # Entry(watched_users, u)
                  THEN {event} ELSE {}),
             cache_by |-> @.cache_by \cup
                 (IF watched_users' # watched_users THEN {event} ELSE {}),
             member |-> @.member \cup (IF was = is THEN {}
                                       ELSE IF is THEN {"added"} ELSE {"dropped"}),
             patched |-> @.patched \cup
                 {i \in 1..Len(backend) : backend'[i] # backend[i]},
             added |-> @.added \cup ((Len(backend) + 1)..Len(backend')),
             seen |-> IF event = "fetch" THEN Len(backend) ELSE @.seen,
             cached |-> IF event = "query" THEN was ELSE @.cached,
             late |-> @.late]]

Goto(p, label) == pc' = [pc EXCEPT ![p] = label]
Send(p, msg) == out' = [out EXCEPT ![p] = Append(@, msg)]
End(p, branch) == Goto(p, "done") /\ result' = [result EXCEPT ![p] = branch]

\* An invocation takes the first slot with none in flight.  What a finished
\* invocation left in its slot is kept until the next invocation starts.
Free(p) ==
    /\ pc[p] \in {"idle", "done"}
    /\ \A q \in Procs : q < p => pc[q] \notin {"idle", "done"}

Started(f, p, mine, blank) ==
    [q \in Procs |-> IF q = p THEN mine ELSE IF pc[q] = "done" THEN blank ELSE f[q]]

Begin(p, args, label, sent, branch, event) ==
    /\ Free(p)
    /\ ncalls' = ncalls + 1
    /\ call' = Started(call, p, args, NoCall)
    /\ pc' = Started(pc, p, label, "idle")
    /\ out' = Started(out, p, sent, <<>>)
    /\ result' = Started(result, p, branch, "")
    /\ eff' = Started(eff, p, [NoEff EXCEPT !.log = <<event>>,
                                            !.late = args.user \in past.doubled], NoEff)
    /\ resp' = Started(resp, p, <<>>, <<>>)
    /\ past' = [past EXCEPT
           !.raced = @ \/ (\E q \in Procs : /\ pc[q] \notin {"idle", "done"}
                                             /\ "watch" \in {args.op, call[q].op}),
           !.stuck = @ \cup
               (IF \A q \in Procs : pc[q] \in {"idle", "done"}
                THEN {u \in Users : ActiveCount(backend, u) >= 2}
                ELSE {})]
    /\ UNCHANGED <<backend, watched_users>>

\* the bot guard without its return: the message is sent and the invocation
\* goes on
WatchCallFallsThrough(p, user, reason) ==
    LET args == [op |-> "watch", user |-> user, reason |-> reason, banned |-> FALSE]
    IN  IF IsBot(user)
        THEN Begin(p, args, "w_fetch", <<Msg("only_humans")>>, "rejected_bot", "reject_bot")
        ELSE Begin(p, args, "w_fetch", <<>>, "", "call")

\* ------------------------------------------------------------ apply_watch
\* lines 63-69: the invocation, the bot guard, the request of the refresh
WatchCall(p, user, reason) ==
    LET args == [op |-> "watch", user |-> user, reason |-> reason, banned |-> FALSE]
    IN  IF IsBot(user)
        THEN Begin(p, args, "done", <<Msg("only_humans")>>, "rejected_bot", "reject_bot")
        ELSE Begin(p, args, "w_fetch", <<>>, "", "call")

\* line 69, fetch_user_cache: the backend serves the fetch of the active
\* watches, or fails
WatchFetch(p) ==
    /\ pc[p] = "w_fetch"
    /\ \E ok \in BOOLEAN :
        /\ resp' = [resp EXCEPT ![p] =
               IF ok THEN <<ApiGet(backend, Users, TRUE)>> ELSE <<>>]
        /\ Goto(p, "w_fetched")
        /\ UNCHANGED <<backend, watched_users, call, out, result, ncalls>>
        /\ Did(p, IF ok THEN "fetch" ELSE "fetch_failed")

\* the membership guard run first, on the cache as the invocation found it,
\* and only then the result of the refresh looked at
WatchRefreshedChecksFirst(p) ==
    /\ pc[p] = "w_fetched"
    /\ resp' = [resp EXCEPT ![p] = <<>>]
    /\ UNCHANGED <<backend, call, ncalls>>
    /\ IF IsAlreadyWatched(watched_users, call[p].user)
       THEN /\ Send(p, Msg("already_watched"))
            /\ End(p, "already_watched")
            /\ UNCHANGED watched_users
            /\ Did(p, "refresh")
       ELSE IF resp[p] = <<>>
       THEN /\ Send(p, Msg("cache_failed"))
            /\ End(p, "cache_failed")
            /\ UNCHANGED watched_users
            /\ Did(p, "refresh_failed")
       ELSE /\ watched_users' \in FetchedCaches(resp[p][1])
            /\ Goto(p, "w_post")
            /\ UNCHANGED <<out, result>>
            /\ Did(p, "refresh")

\* lines 69-77: resumed from the fetch; the cache is replaced, the membership
\* guard runs, the creation is requested
WatchRefreshed(p) ==
    /\ pc[p] = "w_fetched"
    /\ resp' = [resp EXCEPT ![p] = <<>>]
    /\ UNCHANGED <<backend, call, ncalls>>
    /\ IF resp[p] = <<>>
       THEN /\ Send(p, Msg("cache_failed"))
            /\ End(p, "cache_failed")
            /\ UNCHANGED watched_users
            /\ Did(p, "refresh_failed")
       ELSE /\ watched_users' \in FetchedCaches(resp[p][1])
            /\ IF IsAlreadyWatched(watched_users', call[p].user)
               THEN /\ Send(p, Msg("already_watched"))
                    /\ End(p, "already_watched")
               ELSE /\ Goto(p, "w_post")
                    /\ UNCHANGED <<out, result>>
            /\ Did(p, "refresh")

\* line 77, post_infraction: the backend creates the active watch and returns
\* it, or the response is empty
WatchPost(p) ==
    /\ pc[p] = "w_post"
    /\ \E ok \in BOOLEAN :
        /\ IF ok
           THEN /\ backend' = PostInfraction(backend, call[p].user, "watch",
                                             call[p].reason, TRUE)
                /\ resp' = [resp EXCEPT ![p] = <<backend'[Len(backend')]>>]
           ELSE /\ UNCHANGED backend
                /\ resp' = [resp EXCEPT ![p] = <<>>]
        /\ Goto(p, "w_posted")
        /\ UNCHANGED <<watched_users, call, out, result, ncalls>>
        /\ Did(p, IF ok THEN "create" ELSE "create_empty")

\* the cache entry written whatever the response
WatchPostedPutsAnyway(p) ==
    /\ pc[p] = "w_posted"
    /\ resp' = [resp EXCEPT ![p] = <<>>]
    /\ UNCHANGED <<backend, call, ncalls>>
    /\ watched_users' = CachePut(watched_users, call[p].user,
           IF resp[p] # <<>> THEN resp[p][1]
           ELSE Infraction(0, call[p].user, "watch", call[p].reason, TRUE))
    /\ IF resp[p] # <<>>
       THEN /\ Goto(p, "w_hist")
            /\ UNCHANGED <<out, result>>
            /\ Did(p, "put")
       ELSE /\ Send(p, Msg("create_failed"))
            /\ End(p, "create_failed")
            /\ Did(p, "report_failed")

\* lines 79-83 and 98-101: resumed from the creation; the cache entry is
\* written and the history requested, or the failure is reported
WatchPosted(p) ==
    /\ pc[p] = "w_posted"
    /\ resp' = [resp EXCEPT ![p] = <<>>]
    /\ UNCHANGED <<backend, call, ncalls>>
    /\ IF resp[p] # <<>>
       THEN /\ watched_users' = CachePut(watched_users, call[p].user, resp[p][1])
            /\ Goto(p, "w_hist")
            /\ UNCHANGED <<out, result>>
            /\ Did(p, "put")
       ELSE /\ Send(p, Msg("create_failed"))
            /\ End(p, "create_failed")
            /\ UNCHANGED watched_users
            /\ Did(p, "report_failed")

\* lines 83-101: the backend serves the inactive watches of the user, newest
\* first, and the confirmation is sent; or the get raises
WatchHistory(p) ==
    /\ pc[p] = "w_hist"
    /\ \E ok \in BOOLEAN :
        /\ IF ok
           THEN LET history == ApiGet(backend, {call[p].user}, FALSE)
                IN  /\ Send(p, [kind |-> "watching",
                                digest |-> HistoryDigest(history)])
                    /\ End(p, "watching")
           ELSE /\ End(p, "error")
                /\ UNCHANGED out
        /\ UNCHANGED <<backend, watched_users, call, resp, ncalls>>
        /\ Did(p, IF ok THEN "history" ELSE "history_failed")

\* ---------------------------------------------------------- apply_unwatch
\* lines 103-111: the invocation and the request of the active watches
UnwatchCall(p, user, reason, banned) ==
    LET args == [op |-> "unwatch", user |-> user, reason |-> reason, banned |-> banned]
    IN  Begin(p, args, "u_get", <<>>, "", "call")

\* an unwatch that answers from the cache instead of asking the backend
ActiveWatchesCached(user) ==
    IF user \in DOMAIN watched_users THEN <<watched_users[user]>> ELSE <<>>

\* lines 105-111: the active watches of the user, asked of the backend
ActiveWatches(user) == ApiGet(backend, {user}, TRUE)

\* the first of the active watches taken, however many there are
UnpacksAny(active_watches) == active_watches # <<>>

\* line 114: [infraction] = active_watches succeeds
UnpacksOne(active_watches) == Len(active_watches) = 1

\* lines 105-114 and 128-132: the backend serves the active watches of the
\* user; none is reported, exactly one is unpacked, more raise ValueError
UnwatchQuery(p) ==
    /\ pc[p] = "u_get"
    /\ \E ok \in BOOLEAN :
        /\ IF ok
           THEN LET active_watches == ActiveWatches(call[p].user)
                IN  IF active_watches # <<>>
                    THEN IF UnpacksOne(active_watches)
                         THEN /\ resp' = [resp EXCEPT ![p] = active_watches]
                              /\ Goto(p, "u_patch")
                              /\ UNCHANGED <<out, result>>
                         ELSE /\ End(p, "error")
                              /\ UNCHANGED <<out, resp>>
                    ELSE /\ out' = [out EXCEPT ![p] =
                                IF SendsMessage(call[p].banned)
                                THEN <<Msg("not_watched")>> ELSE <<>>]
                         /\ End(p, "not_watched")
                         /\ UNCHANGED resp
           ELSE /\ End(p, "error")
                /\ UNCHANGED <<out, resp>>
        /\ UNCHANGED <<backend, watched_users, call, ncalls>>
        /\ Did(p, IF ok THEN "query" ELSE "query_failed")

\* a failed patch asked again instead of leaving the invocation
UnwatchPatchRetries(p) ==
    /\ pc[p] = "u_patch"
    /\ \E ok \in BOOLEAN :
        /\ IF ok
           THEN /\ backend' = ApiPatchInactive(backend, resp[p][1].id)
                /\ Goto(p, "u_post")
           ELSE /\ UNCHANGED backend
                /\ Goto(p, "u_patch")
        /\ UNCHANGED <<watched_users, call, resp, out, result, ncalls>>
        /\ Did(p, IF ok THEN "patch" ELSE "patch_failed")

\* lines 116-119: the backend patches the infraction to inactive, or raises
UnwatchPatch(p) ==
    /\ pc[p] = "u_patch"
    /\ \E ok \in BOOLEAN :
        /\ IF ok
           THEN /\ backend' = ApiPatchInactive(backend, resp[p][1].id)
                /\ Goto(p, "u_post")
                /\ UNCHANGED result
           ELSE /\ UNCHANGED backend
                /\ End(p, "error")
        /\ UNCHANGED <<watched_users, call, resp, out, ncalls>>
        /\ Did(p, IF ok THEN "patch" ELSE "patch_failed")

\* lines 121-123: the backend creates the closing infraction, or the response
\* is empty; the response is not looked at
UnwatchPost(p) ==
    /\ pc[p] = "u_post"
    /\ \E ok \in BOOLEAN :
        /\ IF ok
           THEN backend' = PostInfraction(backend, call[p].user, "watch",
                                          UnwatchReason(call[p].reason), FALSE)
           ELSE UNCHANGED backend
        /\ Goto(p, IF SendsMessage(call[p].banned) THEN "u_send" ELSE "u_remove")
        /\ UNCHANGED <<watched_users, call, resp, out, result, ncalls>>
        /\ Did(p, IF ok THEN "create" ELSE "create_empty")

\* lines 123-125: the confirmation is delivered
UnwatchSend(p) ==
    /\ pc[p] = "u_send"
    /\ Send(p, Msg("unwatched"))
    /\ Goto(p, "u_remove")
    /\ UNCHANGED <<backend, watched_users, call, resp, result, ncalls>>
    /\ Did(p, "send")

\* the invocation ends without line 127
UnwatchRemoveSkipped(p) ==
    /\ pc[p] = "u_remove"
    /\ End(p, "unwatched")
    /\ UNCHANGED <<backend, watched_users, call, resp, out, ncalls>>
    /\ Did(p, "remove")

\* line 127: the user is removed from the cache
UnwatchRemove(p) ==
    /\ pc[p] = "u_remove"
    /\ watched_users' = RemoveUser(watched_users, call[p].user)
    /\ End(p, "unwatched")
    /\ UNCHANGED <<backend, call, resp, out, ncalls>>
    /\ Did(p, "remove")

\* ---------------------------------------------------------- specifications
Step(p) ==
    \/ WatchFetch(p)
    \/ WatchRefreshed(p)
    \/ WatchPost(p)
    \/ WatchPosted(p)
    \/ WatchHistory(p)
    \/ UnwatchQuery(p)
    \/ UnwatchPatch(p)
    \/ UnwatchPost(p)
    \/ UnwatchSend(p)
    \/ UnwatchRemove(p)

Call(p, reasons) ==
    \/ \E user \in Users, reason \in reasons : WatchCall(p, user, reason)
    \/ \E user \in Users, reason \in reasons, banned \in BOOLEAN :
           UnwatchCall(p, user, reason, banned)

\* invocations interleave at their suspension points
Next ==
    \E p \in Procs :
        \/ ncalls < MaxCalls /\ Call(p, {"spam"})
        \/ Step(p)

Spec == Init /\ [][Next]_vars

\* no invocation is in flight
Quiet == \A p \in Procs : pc[p] \in {"idle", "done"}

\* strictly sequential use: an invocation starts only when none is in flight
SeqNext ==
    \E p \in Procs :
        \/ ncalls < MaxSeqCalls /\ Quiet /\ Call(p, Reasons)
        \/ Step(p)

SeqSpec == Init /\ [][SeqNext]_vars

\* invocations on one user interleave at their suspension points
OneNext ==
    \E p \in Procs :
        \/ ncalls < MaxOneCalls /\ WatchCall(p, 1, "spam")
        \/ ncalls < MaxOneCalls /\ UnwatchCall(p, 1, "spam", FALSE)
        \/ Step(p)

OneSpec == Init /\ [][OneNext]_vars

\* the summarizer on its own: the history request of one invocation is served
\* from a log of up to MaxHist arbitrary watch infractions
HistoryEntries == [user : {1, 2}, reason : Reasons, active : BOOLEAN]

DigestInit ==
    /\ \E n \in 0..MaxHist :
        \E f \in [1..n -> HistoryEntries] :
            backend = [i \in 1..n |->
                          Infraction(i, f[i].user, "watch", f[i].reason, f[i].active)]
    /\ watched_users = EmptyCache
    /\ pc = [p \in Procs |-> IF p = 1 THEN "w_hist" ELSE "idle"]
    /\ call = [p \in Procs |-> IF p = 1
                  THEN [op |-> "watch", user |-> 1, reason |-> "spam", banned |-> FALSE]
                  ELSE NoCall]
    /\ resp = [p \in Procs |-> <<>>]
    /\ out = [p \in Procs |-> <<>>]
    /\ result = [p \in Procs |-> ""]
    /\ eff = [p \in Procs |-> NoEff]
    /\ ncalls = 1
    /\ past = NoPast

DigestNext == \E p \in Procs : WatchHistory(p)

DigestSpec == DigestInit /\ [][DigestNext]_vars

\* ------------------------------------------------------------------ claims
\* the ids of the active watch infractions of a user in the log
ActiveIds(user) ==
    {i \in 1..Len(backend) :
        backend[i].user = user /\ backend[i].active /\ backend[i].type = "watch"}

\* the ids of the inactive watch infractions of a user in the log
InactiveIds(user) ==
    {i \in 1..Len(backend) :
        backend[i].user = user /\ ~backend[i].active /\ backend[i].type = "watch"}

Watches == {p \in Procs : call[p].op = "watch"}
Unwatches == {p \in Procs : call[p].op = "unwatch"}

\* C1: under strictly sequential use, whenever no invocation is in flight, the
\* log holds at most one active watch per user and the cache contains a user
\* exactly when the log holds an active watch for that user.
C1_SequentialI1 ==
    Quiet => \A u \in Users :
        /\ Cardinality(ActiveIds(u)) <= 1
        /\ (u \in DOMAIN watched_users) <=> (ActiveIds(u) # {})

\* a user watched again after having been watched and unwatched
C1_Witness ==
    /\ Quiet
    /\ \E u \in Users :
        /\ ActiveIds(u) # {}
        /\ u \in DOMAIN watched_users
        /\ InactiveIds(u) # {}

\* C2 as stated: a watch rejected for a bot, for a failed refresh or for a
\* user already watched has changed neither the cache map nor the log.
C2_RejectedChangesNothing ==
    \A p \in Watches :
        result[p] \in {"rejected_bot", "cache_failed", "already_watched"} =>
            /\ eff[p].cache_by = {}
            /\ eff[p].patched = {}
            /\ eff[p].added = {}

\* C2 amended: a watch rejected for a bot or for a failed refresh has changed
\* neither the cache map nor the log; a watch rejected for a user already
\* watched has changed no infraction, and has changed the cache map at most by
\* the refresh that replaced it.
C2_RejectedChangesOnlyByRefresh ==
    \A p \in Watches :
        /\ result[p] \in {"rejected_bot", "cache_failed"} =>
            /\ eff[p].cache_by = {}
            /\ eff[p].patched = {}
            /\ eff[p].added = {}
        /\ result[p] = "already_watched" =>
            /\ eff[p].cache_by \subseteq {"refresh"}
            /\ eff[p].patched = {}
            /\ eff[p].added = {}

\* a watch rejected as already watched whose refresh changed the cache map
C2_Witness ==
    \E p \in Watches :
        /\ result[p] = "already_watched"
        /\ eff[p].cache_by = {"refresh"}

\* C3 as stated: when the creation returns empty, whether the cache contains
\* the user has not been changed by the invocation, and no infraction was added.
C3_CreateEmptyKeepsMembership ==
    \A p \in Watches :
        result[p] = "create_failed" =>
            /\ eff[p].member = {}
            /\ eff[p].added = {}

\* C3 amended: when the creation returns empty, the invocation has added and
\* changed no infraction, has never put the user into the cache, and has
\* changed the cache at most by its refresh, which may have taken the user's
\* entry out (never put one in).
C3_CreateEmptyNeverAdds ==
    \A p \in Watches :
        result[p] = "create_failed" =>
            /\ "added" \notin eff[p].member
            /\ eff[p].cache_by \subseteq {"refresh"}
            /\ eff[p].added = {}
            /\ eff[p].patched = {}

\* a failed creation after the refresh took the user's entry out of the cache
C3_Witness ==
    \E p \in Watches :
        /\ result[p] = "create_failed"
        /\ eff[p].member = {"dropped"}

\* C4: the step that ends an unwatch on its success branch (the confirmation
\* sent, or suppressed for a ban) leaves the cache without the user.
C4_UnwatchRemoves ==
    [][\A p \in Procs :
          (pc[p] # "done" /\ pc'[p] = "done" /\ result'[p] = "unwatched")
              => call[p].user \notin DOMAIN watched_users']_vars

\* an unwatch that ended on its success branch and took the user out of the cache
C4_Witness ==
    \E p \in Unwatches :
        /\ result[p] = "unwatched"
        /\ "dropped" \in eff[p].member

\* C7: the digest of the confirmation is absent when the user has at most one
\* inactive watch in the log; otherwise its total is half their number rounded
\* down, its end reason is the reason of the newest and its start reason is
\* "Watched: " followed by the reason of the second newest.
C7_HistoryPairing ==
    \A p \in Watches :
        result[p] = "watching" =>
            LET ids == InactiveIds(call[p].user)
                n == Cardinality(ids)
                newest == CHOOSE i \in ids : \A j \in ids : j <= i
                second == CHOOSE i \in ids \ {newest} : \A j \in ids \ {newest} : j <= i
                digest == out[p][Len(out[p])].digest
            IN  /\ n <= 1 => digest = <<>>
                /\ n > 1 =>
                    /\ Len(digest) = 1
                    /\ 2 * digest[1].total <= n
                    /\ n < 2 * digest[1].total + 2
                    /\ digest[1].end_reason = backend[newest].reason
                    /\ digest[1].start_reason = "Watched: " \o backend[second].reason

\* a digest over four entries whose two newest reasons differ
C7_Witness ==
    \E p \in Watches :
        /\ result[p] = "watching"
        /\ Cardinality(InactiveIds(call[p].user)) = 4
        /\ out[p][1].digest # <<>>
        /\ out[p][1].digest[1].end_reason = "spam"
        /\ out[p][1].digest[1].start_reason = "Watched: test watch"

C6_WatchCreatesCachesReports ==
    \A p \in Watches :
        (pc[p] = "done" /\ "create" \in Range(eff[p].log)) =>
            /\ Cardinality(eff[p].added) = 1
            /\ \A i \in eff[p].added :
                /\ backend[i] = [id |-> i, user |-> call[p].user, type |-> "watch",
                                 reason |-> call[p].reason, active |-> TRUE]
                /\ call[p].user \in DOMAIN watched_users
                /\ watched_users[call[p].user] = backend[i]
            /\ Len(out[p]) = 1
            /\ out[p][1].kind = "watching"

\* C8: an unwatch that is part of a ban never sends a message; one that is not
\* sends "not watched" when it found no active watch and the confirmation when
\* it deactivated one; what the invocation did to the log and to the cache is
\* the same in both cases: nothing when no active watch was found, and no
\* more than the patch of the one found, one added infraction and the removal
\* from the cache, which ends the invocation, when one was.
C8_BanSuppression ==
    \A p \in Unwatches :
        /\ call[p].banned => out[p] = <<>>
        /\ result[p] = "not_watched" =>
            /\ ~call[p].banned => out[p] = <<Msg("not_watched")>>
            /\ eff[p].cache_by = {} /\ eff[p].patched = {} /\ eff[p].added = {}
        /\ result[p] = "unwatched" =>
            /\ ~call[p].banned => out[p] = <<Msg("unwatched")>>
            /\ eff[p].patched \subseteq {resp[p][1].id}
            /\ Cardinality(eff[p].added) <= 1
            /\ eff[p].log[Len(eff[p].log)] = "remove"
            /\ eff[p].cache_by \subseteq {"remove"}

\* an unwatch as part of a ban that deactivated a watch, took the user out of
\* the cache and sent nothing
C8_Witness ==
    \E p \in Unwatches :
        /\ call[p].banned
        /\ result[p] = "unwatched"
        /\ out[p] = <<>>
        /\ eff[p].cache_by = {"remove"}

\* C9: two active watches of one user are reachable, and only through the
\* window between the refresh and the creation: every older active watch of
\* the user that coexists with an infraction a watch created was appended to
\* the log after the fetch of that watch's refresh was served.
C9_SecondActiveOnlyThroughWindow ==
    \A p \in Watches :
        \A i \in eff[p].added :
            \A j \in ActiveIds(call[p].user) :
                j < i => j > eff[p].seen

\* two invocations for one user that both passed the guard and both created
\* an infraction, both active
C9_Witness ==
    \E p \in Watches, q \in Watches :
        /\ p # q
        /\ call[p].user = call[q].user
        /\ eff[p].added # {} /\ eff[q].added # {}
        /\ (eff[p].added \cup eff[q].added) \subseteq ActiveIds(call[p].user)
        /\ Cardinality(ActiveIds(call[p].user)) = 2

\* C10: what an unwatch does is decided by the log as it is when the query is
\* served, whatever the cache holds: with no active watch of the user it ends
\* reporting "not watched" (silently for a ban); with exactly one it goes on to
\* patch that infraction; and the patch deactivates that infraction and the
\* creation appends the closing infraction.
C10_UnwatchIgnoresCache ==
    [][\A p \in Unwatches :
          LET user == call[p].user
              ids == ActiveIds(user)
              log == eff'[p].log
          IN  /\ (pc[p] = "u_get" /\ log[Len(log)] = "query") =>
                  /\ ids = {} =>
                      /\ result'[p] = "not_watched"
                      /\ out'[p] = IF call[p].banned THEN <<>> ELSE <<Msg("not_watched")>>
                  /\ Cardinality(ids) = 1 =>
                      /\ pc'[p] = "u_patch"
                      /\ \A i \in ids : resp'[p] = <<backend[i]>>
              /\ (pc[p] = "u_patch" /\ log[Len(log)] = "patch") =>
                  backend' = [backend EXCEPT ![resp[p][1].id].active = FALSE]
              /\ (pc[p] = "u_post" /\ log[Len(log)] = "create") =>
                  backend' = Append(backend,
                      [id |-> Len(backend) + 1, user |-> user, type |-> "watch",
                       reason |-> "Unwatched: " \o call[p].reason, active |-> FALSE])
      ]_vars

\* an unwatch that reported "not watched" although the cache contained the
\* user when its query was served
C10_Witness ==
    \E p \in Unwatches :
        /\ result[p] = "not_watched"
        /\ eff[p].cached

\* ------------------------------------------------------------------- C11
\* the last event of the invocation in slot p, after the step
LastEvent(p) == eff'[p].log[Len(eff'[p].log)]

\* C11: when the query of an unwatch is answered with more than one active
\* watch of its user, the invocation ends there on the error branch: the step
\* changes neither the log nor the cache, and the invocation has patched no
\* infraction, created none and changed the cache by no step of its own
C11_SeveralActiveNothingDone ==
    [][\A p \in Unwatches :
        (/\ pc[p] = "u_get"
         /\ pc'[p] # "u_get"
         /\ LastEvent(p) = "query"
         /\ Cardinality(ActiveIds(call[p].user)) > 1)
        => /\ pc'[p] = "done"
           /\ result'[p] = "error"
           /\ backend' = backend
           /\ watched_users' = watched_users
           /\ eff'[p].patched = {}
           /\ eff'[p].added = {}
           /\ eff'[p].cache_by = {}]_vars

\* an unwatch has ended on the error branch at its answered query, with two
\* active watches of its user in the log
C11_Witness ==
    \E p \in Unwatches :
        /\ pc[p] = "done"
        /\ result[p] = "error"
        /\ eff[p].log = <<"call", "query">>
        /\ Cardinality(ActiveIds(call[p].user)) >= 2

\* ------------------------------------------------------------------- C12
\* the invocation in slot p has ended on a failure path: on any branch but
\* the two success branches, or with the closing infraction not created
FailurePath(p) ==
    /\ pc[p] = "done"
    /\ \/ result[p] \notin {"watching", "unwatched"}
       \/ "create_empty" \in Range(eff[p].log)

\* no event of the invocation in slot p happened twice
NoRetry(p) ==
    \A i, j \in 1..Len(eff[p].log) : eff[p].log[i] = eff[p].log[j] => i = j

C13_UnwatchWriteFailureKeepsCache ==
    \A p \in Unwatches :
        (/\ pc[p] = "done"
         /\ Range(eff[p].log) \cap {"patch_failed", "create_empty"} # {})
        => /\ result[p] # "unwatched"
           /\ \A i \in 1..Len(out[p]) : out[p][i].kind # "unwatched"
           /\ eff[p].cache_by = {}
           /\ eff[p].member = {}

\* ------------------------------------------------------------------- C14
\* event a is in the log of the invocation in slot p before its j-th event
Earlier(p, a, j) == \E i \in 1..(j - 1) : eff[p].log[i] = a

\* C14: apart from the refresh, an invocation changes the cache only by the
\* put of a watch, after the create of that watch returned an infraction, and
\* by the remove of an unwatch, after the patch of that unwatch succeeded and
\* its closing infraction was created
C14_WriteThroughOrder ==
    \A p \in Procs :
        /\ eff[p].cache_by \subseteq {"refresh", "put", "remove"}
        /\ \A j \in 1..Len(eff[p].log) :
            /\ eff[p].log[j] = "put" =>
                /\ call[p].op = "watch"
                /\ Earlier(p, "create", j)
            /\ eff[p].log[j] = "remove" =>
                /\ call[p].op = "unwatch"
                /\ Earlier(p, "patch", j)
                /\ Earlier(p, "create", j)

\* ------------------------------------------------------------------- C15
\* C15: a watch of a bot ends at the call, rejected, with no backend call
\* asked (not the fetch of the refresh either); a watch whose refresh failed
\* ends as "cache failed" whatever the cache holds, having created nothing
\* and changed no cache entry; an "already watched" rejection follows a
\* successful refresh; a create is only asked after a successful refresh
C15_GuardOrder ==
    \A p \in Watches :
        /\ IsBot(call[p].user) =>
            /\ pc[p] = "done"
            /\ result[p] = "rejected_bot"
            /\ eff[p] = [NoEff EXCEPT !.log = <<"reject_bot">>]
        /\ "fetch_failed" \in Range(eff[p].log) =>
            /\ pc[p] \in {"w_fetched", "done"}
            /\ pc[p] = "done" =>
                /\ result[p] = "cache_failed"
                /\ eff[p].log = <<"call", "fetch_failed", "refresh_failed">>
            /\ eff[p].added = {}
            /\ eff[p].cache_by = {}
        /\ result[p] = "already_watched" =>
            eff[p].log = <<"call", "fetch", "refresh">>
        /\ \A j \in 1..Len(eff[p].log) :
            /\ eff[p].log[j] \in {"create", "create_empty"} =>
                /\ Earlier(p, "refresh", j)
                /\ ~IsBot(call[p].user)
            /\ eff[p].log[j] \in {"refresh", "refresh_failed"} =>
                /\ Earlier(p, "call", j)
                /\ ~Earlier(p, "create", j)
                /\ ~Earlier(p, "create_empty", j)

\* a watch of a bot has been rejected at its call, and a watch has ended on
\* the failed refresh while the cache contains its user
C15_Witness ==
    \E p, q \in Watches :
        /\ result[p] = "rejected_bot"
        /\ eff[p].log = <<"reject_bot">>
        /\ result[q] = "cache_failed"
        /\ call[q].user \in DOMAIN watched_users

\* ------------------------------------------------------------------- C16
\* every infraction the invocation in slot p patched or created is one of
\* the user of the invocation
OwnRecordsOnly(p) ==
    \A i \in eff[p].patched \cup eff[p].added : backend[i].user = call[p].user

\* C16 as stated: an invocation patches and creates infractions of its
\* own user only, and no step of it changes the cache entry of another user
C16_OtherSubjectsUntouched ==
    \A p \in Procs :
        /\ OwnRecordsOnly(p)
        /\ eff[p].others = {}

\* C16: an invocation patches and creates infractions of its own user only;
\* an unwatch changes the cache entry of no other user; a watch changes the
\* cache entry of another user by its refresh only, not by its put
C16_OthersOnlyByRefresh ==
    \A p \in Procs :
        /\ OwnRecordsOnly(p)
        /\ eff[p].others \subseteq {"refresh"}
        /\ call[p].op = "unwatch" => eff[p].others = {}

\* the refresh of a watch has changed the cache entry of another user, and
\* the watch has gone on to create and cache the watch of its own user
C16_Witness ==
    \E p \in Watches :
        /\ eff[p].others = {"refresh"}
        /\ "put" \in Range(eff[p].log)
        /\ OwnRecordsOnly(p)

\* ------------------------------------------------------------------- C17
\* the cache contains the user exactly if the log holds an active watch of it
Agreement(u) == (u \in DOMAIN watched_users) <=> (ActiveIds(u) # {})

\* C17 as stated: whenever no invocation is in flight, the cache
\* contains a user exactly if the log holds an active watch of that user
C17_QuiescentAgreement ==
    Quiet => \A u \in Users : Agreement(u)

\* C17: whenever no invocation is in flight, and no watch has been in flight
\* together with another invocation, the cache contains a user exactly if the
\* log holds an active watch of that user
C17_AgreementUnlessWatchOverlapped ==
    (Quiet /\ ~past.raced) => \A u \in Users : Agreement(u)

\* two unwatches of one user have overlapped and both completed on the
\* success branch, with no watch ever in flight together with another
\* invocation
C17_Witness ==
    /\ Quiet
    /\ ~past.raced
    /\ \E p, q \in Unwatches :
        /\ p # q
        /\ call[p].user = call[q].user
        /\ result[p] = "unwatched"
        /\ result[q] = "unwatched"

\* ------------------------------------------------------------------- C18
\* the inactive watches of the user, newest first, pair up: each odd entry
\* is a closing infraction ("Unwatched: " and a reason), the entry after it
\* is older, carries a bare reason, and is the infraction of the user
\* inserted last before the closing one
PairedHistory(user, history) ==
    \A j \in 1..(Len(history) \div 2) :
        LET closing == history[2 * j - 1]
            opening == history[2 * j]
        IN  /\ \E r \in Reasons : closing.reason = "Unwatched: " \o r
            /\ opening.reason \in Reasons
            /\ opening.id < closing.id
            /\ \A i \in (opening.id + 1)..(closing.id - 1) : backend[i].user # user
            /\ 2 * j < Len(history) => history[2 * j + 1].id < opening.id

\* C18: with invocations run one after the other and no backend call failed
\* so far, the inactive history a watch is answered with has twice as many
\* entries as unwatches of the user have completed before, in pairs of a
\* closing infraction and the opening one it closed, newest first; the digest
\* counts that many episodes and quotes the first pair
C18_HistoryAlternates ==
    \A p \in Watches :
        (result[p] = "watching" /\ ~past.failed) =>
            LET user == call[p].user
                history == ApiGet(backend, {user}, FALSE)
                k == past.closed[user]
            IN  /\ Len(history) = 2 * k
                /\ PairedHistory(user, history)
                /\ out[p] = <<[kind |-> "watching",
                               digest |-> IF k = 0 THEN <<>>
                                   ELSE <<[total |-> k,
                                           end_reason |-> history[1].reason,
                                           start_reason |-> "Watched: " \o history[2].reason]>>]>>

\* a third watch of a user has been confirmed after two completed unwatches
\* of that user, with no backend call failed
C18_Witness ==
    \E p \in Watches :
        /\ result[p] = "watching"
        /\ ~past.failed
        /\ past.closed[call[p].user] = 2
        /\ Len(ApiGet(backend, {call[p].user}, FALSE)) = 4

\* ------------------------------------------------------------------- C19
\* C19 as stated: an invocation that started after the log had held
\* two or more active watches of its user patches no infraction
C19_NoLaterCallReduces ==
    \A p \in Procs : eff[p].late => eff[p].patched = {}

\* C19: once an invocation has started while none was in flight and the log
\* held two or more active watches of a user, the log holds two or more of
\* them ever after: every invocation on that user since has patched nothing
\* and created nothing, a watch has ended as "already watched" or on the
\* failed refresh, and an unwatch has ended by the exception
C19_DoubleActivePermanentOnceQuiet ==
    \A u \in past.stuck :
        /\ ActiveCount(backend, u) >= 2
        /\ \A p \in Procs :
            call[p].user = u =>
                /\ eff[p].patched = {}
                /\ eff[p].added = {}
                /\ call[p].op = "watch"
                       => result[p] \in {"", "already_watched", "cache_failed"}
                /\ call[p].op = "unwatch" => result[p] \in {"", "error"}
                /\ pc[p] \notin {"w_post", "w_posted", "w_hist",
                                 "u_patch", "u_post", "u_send", "u_remove"}

\* with nothing in flight and two active watches of a user in the log, an
\* unwatch and a watch of that user have started; the unwatch has ended by
\* the exception at its answered query, the watch as "already watched"
C19_Witness ==
    \E p \in Unwatches, q \in Watches :
        /\ call[p].user \in past.stuck
        /\ call[q].user = call[p].user
        /\ result[p] = "error"
        /\ eff[p].log = <<"call", "query">>
        /\ result[q] = "already_watched"
        /\ ActiveCount(backend, call[p].user) >= 2

\* ------------------------------------------------------------------- C20
\* the snapshot holds an active watch of the user
InSnapshot(snapshot, user) ==
    \E r \in Range(snapshot) : r.user = user /\ r.type = "watch" /\ r.active

\* C20: the snapshot a successful fetch of the refresh returns is the active
\* watches of the log at that moment; the watch resumed from a successful
\* fetch ends as "already watched", with the log unchanged, if that snapshot
\* holds an active watch of its user, and goes on to the create if it does
\* not, whatever the cache held before the step
C20_DecisionBySnapshot ==
    [][\A p \in Watches :
        /\ (pc[p] = "w_fetch" /\ pc'[p] = "w_fetched" /\ resp'[p] # <<>>)
            => Range(resp'[p][1]) =
                   {backend[i] : i \in {n \in 1..Len(backend) :
                        backend[n].type = "watch" /\ backend[n].active}}
        /\ (pc[p] = "w_fetched" /\ pc'[p] # "w_fetched" /\ resp[p] # <<>>)
            => IF InSnapshot(resp[p][1], call[p].user)
               THEN /\ pc'[p] = "done"
                    /\ result'[p] = "already_watched"
                    /\ out'[p] = <<Msg("already_watched")>>
                    /\ backend' = backend
               ELSE /\ pc'[p] = "w_post"
                    /\ result'[p] = ""
                    /\ out'[p] = <<>>]_vars

\* a watch has passed the membership guard although the cache contained its
\* user when it was resumed (the refresh dropped the entry), and a watch has
\* been rejected as already watched although the cache did not contain its
\* user when it was resumed (the refresh added the entry)
C20_Witness ==
    \E p, q \in Watches :
        /\ "dropped" \in eff[p].member
        /\ "create" \in Range(eff[p].log)
        /\ result[q] = "already_watched"
        /\ "added" \in eff[q].member

====
